---- MODULE Spec2Model ----
(***************************************************************************)
(* The ingestion-and-query pipeline of sensorflow-data-pipeline:           *)
(* GET /sql/readings (routes/get_readings.rs), the transformer             *)
(* (models.rs) and the tables of schema.rs.                                *)
(*                                                                         *)
(* Every `.await` of the handler is a point where another request may run, *)
(* so each awaited I/O (one SQL statement, one upstream page) is one       *)
(* action.  The database and the upstream API are the environment: the     *)
(* outcome of each statement and the content of each page are chosen       *)
(* nondeterministically.                                                   *)
(***************************************************************************)
EXTENDS Integers, Sequences, FiniteSets, Bags, TLC

(***************************************************************************)
(* Bounds of the model.                                                    *)
(***************************************************************************)
NumRequests == 2      \* request slots that may run concurrently
MaxCalls == 3         \* requests received in one behaviour
MaxPagesCfg == 2      \* API_MAX_PAGES ranges over 0..MaxPagesCfg
MaxItems == 2         \* items in the "results" array of one page
MaxLen == 4           \* characters of a timestamp_range string (parser spec)
MaxRows == 3          \* rows of sensor_data drawn by the query spec
MaxLimit == 2         \* explicit limit parameters range over 0..MaxLimit

(***************************************************************************)
(* Option<T>: None is the empty sequence, Some(x) the one-element one.     *)
(***************************************************************************)
None == << >>
Some(x) == << x >>
IsSome(o) == Len(o) = 1
IsNone(o) == Len(o) = 0
Unwrap(o) == o[1]

Min(a, b) == IF a <= b THEN a ELSE b

(***************************************************************************)
(* models.rs                                                               *)
(***************************************************************************)
Meshes == {"mesh-001", "mesh-002"}
Devices == {"device-001", "device-002"}

\* RawSensorReading values the upstream sends (timestamps are UTC instants,
\* temperatures and humidities sit on and around the alert thresholds).
Raw(m, d, ts, t, h) ==
    [mesh_id |-> m, device_id |-> d, timestamp |-> ts,
     temperature_c |-> t, humidity |-> h, status |-> "ok"]

ReadingA == Raw("mesh-001", "device-001", 1, 20, 50)
ReadingB == Raw("mesh-002", "device-002", 2, 61, 9)

RawReadings == { ReadingA, ReadingB }

\* The wider set the query spec draws table rows from.
RawReadingsWide ==
    RawReadings \cup
    { Raw("mesh-001", "device-002", 2, -10, 90),
      Raw("mesh-002", "device-002", 3, -11, 91),
      Raw("mesh-001", "device-001", 3, 60, 10),
      Raw("mesh-002", "device-002", 0, 20, 50) }

\* Faulty variant of to_transformed: the thresholds themselves alert.
to_transformed_inclusive(raw) ==
    [mesh_id |-> raw.mesh_id,
     device_id |-> raw.device_id,
     timestamp_utc |-> raw.timestamp,
     temperature_c |-> raw.temperature_c,
     humidity |-> raw.humidity,
     status |-> raw.status,
     temperature_alert |-> (raw.temperature_c <= -10 \/ raw.temperature_c >= 60),
     humidity_alert |-> (raw.humidity <= 10 \/ raw.humidity >= 90)]

\* RawSensorReading::to_transformed
to_transformed(raw) ==
    [mesh_id |-> raw.mesh_id,
     device_id |-> raw.device_id,
     timestamp_utc |-> raw.timestamp,
     temperature_c |-> raw.temperature_c,
     humidity |-> raw.humidity,
     status |-> raw.status,
     temperature_alert |-> (raw.temperature_c < -10 \/ raw.temperature_c > 60),
     humidity_alert |-> (raw.humidity < 10 \/ raw.humidity > 90)]

RowsWide == { to_transformed(raw) : raw \in RawReadingsWide }

(***************************************************************************)
(* parse_timestamp_range (get_readings.rs).                                *)
(*                                                                         *)
(* A string is a sequence of characters.  A complete RFC3339 literal is    *)
(* one atom of the alphabet: "T<local hour>" followed by its offset, so    *)
(* "T2+01" is 02:00 at +01:00, the same instant as "T1Z".  " " is          *)
(* whitespace, "," the comma and "x" any other character.                  *)
(***************************************************************************)
Literals == {"T1Z", "T2Z", "T2+01", "T3+01"}
Alphabet == {" ", ",", "x"} \cup Literals

LocalHour(lit) ==
    CASE lit = "T1Z" -> 1
      [] lit = "T2Z" -> 2
      [] lit = "T2+01" -> 2
      [] lit = "T3+01" -> 3

OffsetHours(lit) ==
    CASE lit = "T1Z" -> 0
      [] lit = "T2Z" -> 0
      [] lit = "T2+01" -> 1
      [] lit = "T3+01" -> 1

\* Faulty variant of with_timezone_utc: the offset is dropped.
with_timezone_dropped(lit) == LocalHour(lit)

\* d.with_timezone(&Utc): the UTC instant of a literal.
with_timezone_utc(lit) == LocalHour(lit) - OffsetHours(lit)

\* chrono::DateTime::parse_from_rfc3339(t).ok(): the whole of t must be one
\* date-time literal.
parse_from_rfc3339(t) ==
    IF Len(t) = 1 /\ t[1] \in Literals THEN Some(t[1]) ELSE None

RECURSIVE TrimStart(_)
TrimStart(s) ==
    IF s # << >> /\ Head(s) = " " THEN TrimStart(Tail(s)) ELSE s

RECURSIVE TrimEnd(_)
TrimEnd(s) ==
    IF s # << >> /\ s[Len(s)] = " " THEN TrimEnd(SubSeq(s, 1, Len(s) - 1)) ELSE s

\* str::trim
Trim(s) == TrimEnd(TrimStart(s))

\* str::split_once(','): the split at the FIRST comma, None without one.
CommaPositions(s) == { i \in 1..Len(s) : s[i] = "," }
split_once(s) ==
    IF CommaPositions(s) = {} THEN None
    ELSE LET i == CHOOSE k \in CommaPositions(s) :
                      \A j \in CommaPositions(s) : k <= j
         IN  Some(<< SubSeq(s, 1, i - 1), SubSeq(s, i + 1, Len(s)) >>)

\* The closure `parse` of parse_timestamp_range: an empty side and a side
\* that fails to parse both yield None.
ParseSide(t) ==
    IF Trim(t) = << >> THEN None
    ELSE IF IsSome(parse_from_rfc3339(Trim(t)))
         THEN Some(with_timezone_utc(Unwrap(parse_from_rfc3339(Trim(t)))))
         ELSE None

parse_timestamp_range(s) ==
    LET sp == split_once(Trim(s)) IN
    IF IsNone(sp) THEN None
    ELSE LET start == ParseSide(Unwrap(sp)[1])
             end == ParseSide(Unwrap(sp)[2])
         IN  IF IsSome(start) /\ IsSome(end) /\ Unwrap(start) > Unwrap(end)
             THEN None
             ELSE Some(<< start, end >>)

(***************************************************************************)
(* schema.rs: the tables.  sensor_data is a bag of rows (the id column is  *)
(* never selected); mesh_summary maps mesh_id, its primary key, to a row.  *)
(***************************************************************************)
\* Columns declared NOT NULL without a default by create_schema.
SensorDataNotNull ==
    {"mesh_id", "device_id", "timestamp_utc", "timestamp_est",
     "temperature_c", "temperature_f", "humidity"}
MeshSummaryNotNull ==
    {"mesh_id", "avg_temperature_c", "avg_temperature_f", "avg_humidity",
     "reading_count"}

\* Columns the statements of get_readings.rs supply.
InsertColumns ==
    {"mesh_id", "device_id", "timestamp_utc", "temperature_c", "humidity",
     "status", "temperature_alert", "humidity_alert"}
UpsertColumns ==
    {"mesh_id", "avg_temperature_c", "avg_humidity", "reading_count"}

\* CREATE TABLE IF NOT EXISTS: `created` says that startup created the
\* tables with the columns above; otherwise tables that existed before were
\* kept, and they are taken to accept the columns the statements supply.
InsertAccepted(created) == created => SensorDataNotNull \subseteq InsertColumns
UpsertAccepted(created) == created => MeshSummaryNotNull \subseteq UpsertColumns

\* Result<_, sqlx::Error> of one statement: any statement may fail (the
\* connection, the pool); a statement the table rejects always fails.
StoreOutcomes(created) ==
    IF InsertAccepted(created) THEN {"ok", "err"} ELSE {"err"}

\* Faulty variant of BagAdd: a row equal to a stored one is not added.
BagAddOnce(table, row) ==
    IF row \in DOMAIN table THEN table ELSE table (+) SetToBag({row})

\* INSERT INTO sensor_data: one more row.
BagAdd(table, row) == table (+) SetToBag({row})
BagRemove(table, row) == table (-) SetToBag({row})
BagIsEmpty(table) == DOMAIN table = {}
BagSize(table) == BagCardinality(table)

\* Faulty variant of Exists: the check asks for more than one row.
ExistsMoreThanOne(table) == BagSize(table) > 1

\* SELECT EXISTS (SELECT 1 FROM sensor_data)
Exists(table) == ~BagIsEmpty(table)

(***************************************************************************)
(* update_mesh_summaries: INSERT ... SELECT ... GROUP BY mesh_id           *)
(* ON CONFLICT (mesh_id) DO UPDATE.  An average is kept as the exact       *)
(* fraction sum/count.                                                     *)
(***************************************************************************)
RECURSIVE BagSum(_, _, _)
BagSum(table, m, col) ==
    IF BagIsEmpty(table) THEN 0
    ELSE LET row == CHOOSE x \in DOMAIN table : TRUE
             rest == [x \in DOMAIN table \ {row} |-> table[x]]
         IN  (IF row.mesh_id = m THEN table[row] * row[col] ELSE 0)
             + BagSum(rest, m, col)

RECURSIVE BagCount(_, _)
BagCount(table, m) ==
    IF BagIsEmpty(table) THEN 0
    ELSE LET row == CHOOSE x \in DOMAIN table : TRUE
             rest == [x \in DOMAIN table \ {row} |-> table[x]]
         IN  (IF row.mesh_id = m THEN table[row] ELSE 0) + BagCount(rest, m)

GroupKeys(table) == { row.mesh_id : row \in DOMAIN table }

Aggregate(table, m) ==
    [avg_temperature_c |-> << BagSum(table, m, "temperature_c"), BagCount(table, m) >>,
     avg_humidity |-> << BagSum(table, m, "humidity"), BagCount(table, m) >>,
     reading_count |-> BagCount(table, m)]

\* Faulty variant of Upsert: an existing row's count is added to, not replaced.
UpsertAccumulate(summary, table) ==
    [m \in DOMAIN summary \cup GroupKeys(table) |->
        IF m \notin GroupKeys(table) THEN summary[m]
        ELSE IF m \notin DOMAIN summary THEN Aggregate(table, m)
        ELSE [Aggregate(table, m) EXCEPT
                !.reading_count = @ + summary[m].reading_count]]

\* INSERT ... SELECT ... GROUP BY mesh_id ON CONFLICT (mesh_id) DO UPDATE
Upsert(summary, table) ==
    [m \in DOMAIN summary \cup GroupKeys(table) |->
        IF m \in GroupKeys(table) THEN Aggregate(table, m) ELSE summary[m]]

\* The upsert writes a row only when sensor_data has a group, so a table
\* that rejects its columns fails it only then.
SummaryOutcomes(created, table) ==
    IF UpsertAccepted(created) \/ GroupKeys(table) = {}
    THEN {"ok", "err"} ELSE {"err"}

(***************************************************************************)
(* load_filtered_readings: WHERE ... ORDER BY timestamp_utc DESC LIMIT n   *)
(***************************************************************************)
DEFAULT_LIMIT == 1000

DevicePred(row, p) ==
    IsSome(p.device_id) => row.device_id = Unwrap(p.device_id)

MeshPred(row, p) ==
    IsSome(p.mesh_id) => row.mesh_id = Unwrap(p.mesh_id)

\* The bounds the query binds: none when the parameter is absent or the
\* parser returns None.
BoundsOf(p) ==
    IF IsNone(p.timestamp_range) THEN << None, None >>
    ELSE LET r == parse_timestamp_range(Unwrap(p.timestamp_range))
         IN  IF IsSome(r) THEN Unwrap(r) ELSE << None, None >>

\* Faulty variant of StartPred: the start bound is exclusive.
StartPredExclusive(row, p) ==
    IsSome(BoundsOf(p)[1]) => row.timestamp_utc > Unwrap(BoundsOf(p)[1])

StartPred(row, p) ==
    IsSome(BoundsOf(p)[1]) => row.timestamp_utc >= Unwrap(BoundsOf(p)[1])

EndPred(row, p) ==
    IsSome(BoundsOf(p)[2]) => row.timestamp_utc <= Unwrap(BoundsOf(p)[2])

Matches(row, p) ==
    DevicePred(row, p) /\ MeshPred(row, p) /\ StartPred(row, p) /\ EndPred(row, p)

Where(table, p) ==
    [row \in { x \in DOMAIN table : Matches(x, p) } |-> table[row]]

\* Faulty variant of Newest: ORDER BY timestamp_utc ASC.
Oldest(table) ==
    { x \in DOMAIN table : \A y \in DOMAIN table : x.timestamp_utc <= y.timestamp_utc }

\* The rows that may come first under ORDER BY timestamp_utc DESC: the
\* order of rows with equal timestamps is the database's choice.
Newest(table) ==
    { x \in DOMAIN table : \A y \in DOMAIN table : x.timestamp_utc >= y.timestamp_utc }

RECURSIVE OrderByTsDesc(_)
OrderByTsDesc(table) ==
    IF BagIsEmpty(table) THEN { << >> }
    ELSE UNION { { << x >> \o s : s \in OrderByTsDesc(BagRemove(table, x)) } :
                 x \in Newest(table) }

\* Faulty variant of LimitOf: an absent limit returns a single row.
LimitOfDefaultOne(p) == IF IsSome(p.limit) THEN Unwrap(p.limit) ELSE 1

\* params.limit.unwrap_or(1000)
LimitOf(p) == IF IsSome(p.limit) THEN Unwrap(p.limit) ELSE DEFAULT_LIMIT

\* Faulty variant of ApplyLimit: one row more than the cap.
ApplyLimitOffByOne(s, n) == SubSeq(s, 1, Min(Len(s), n + 1))

\* LIMIT n
ApplyLimit(s, n) == SubSeq(s, 1, Min(Len(s), n))

\* Every sequence the SELECT may return.
QueryResults(table, p) ==
    { ApplyLimit(s, LimitOf(p)) : s \in OrderByTsDesc(Where(table, p)) }

(***************************************************************************)
(* The upstream API.  A response is a connection error or an HTTP reply    *)
(* with a status and a body; a body that is JSON has a "results" member    *)
(* (None: missing or not an array) and a "next_cursor" member.             *)
(***************************************************************************)
Cursors == {"c1"}
CursorValues == {"absent", "null", "number"} \cup Cursors
Statuses == {200, 503}

\* An item of "results": Some(raw) deserializes to raw, None does not
\* deserialize to a RawSensorReading.
Items == { Some(raw) : raw \in RawReadings } \cup { None }

SeqsUpTo(S, n) == UNION { [1..k -> S] : k \in 0..n }

JsonResponses ==
    [kind : {"http"}, status : Statuses, json : {TRUE},
     results : { None } \cup { Some(l) : l \in SeqsUpTo(Items, MaxItems) },
     next_cursor : CursorValues]

FailedResponses ==
    [kind : {"conn_error"}, status : {0}, json : {FALSE},
     results : { None }, next_cursor : {"absent"}]
    \cup
    [kind : {"http"}, status : Statuses, json : {FALSE},
     results : { None }, next_cursor : {"absent"}]

Responses == JsonResponses \cup FailedResponses

\* Faulty variant of TransportOk: a failed request is taken for an empty page.
TransportOkAlways(resp) == resp.kind \in {"http", "conn_error"}

\* client.get(&url).send().await?.json().await?  (send() succeeds for every
\* HTTP status; json() parses the body whatever the status).
TransportOk(resp) == resp.kind = "http" /\ resp.json

\* Faulty variant of Deserialize: the first malformed item ends the page.
RECURSIVE DeserializeUntilError(_)
DeserializeUntilError(items) ==
    IF items = << >> \/ IsNone(Head(items)) THEN << >>
    ELSE << Unwrap(Head(items)) >> \o DeserializeUntilError(Tail(items))

\* serde_json::from_value::<RawSensorReading> over the items of one page,
\* keeping those that deserialize.
RECURSIVE Deserialize(_)
Deserialize(items) ==
    IF items = << >> THEN << >>
    ELSE (IF IsSome(Head(items)) THEN << Unwrap(Head(items)) >> ELSE << >>)
         \o Deserialize(Tail(items))

\* response.get("results").and_then(|d| d.as_array())
PageItems(resp) ==
    IF IsSome(resp.results) THEN Deserialize(Unwrap(resp.results)) ELSE << >>

\* response.get("next_cursor").and_then(|c| c.as_str())
NextCursor(resp) ==
    IF resp.next_cursor \in Cursors THEN Some(resp.next_cursor) ELSE None

\* Faulty variant of PageLimitHit: the guardrail is off by one.
PageLimitHitOffByOne(count, limit) == count > limit

\* The guardrail at the head of the loop.
PageLimitHit(count, limit) == count >= limit

\* Whether the loop of fetch_sensor_data issues another request after a page.
FetchContinues(cur, count, limit) == IsSome(cur) /\ ~PageLimitHit(count, limit)

(***************************************************************************)
(* State.                                                                  *)
(***************************************************************************)
VARIABLES
    sensor_data,     \* table sensor_data: a bag of rows
    mesh_summary,    \* table mesh_summary: mesh_id -> row
    schema_created,  \* startup created the tables (else existing ones kept)
    max_pages,       \* config.api_max_pages
    pc,              \* where each request is
    params,          \* ReadingsQuery of each request
    has_data,        \* ensure_data_loaded: the existence check's answer
    all_data,        \* fetch_sensor_data: readings collected so far
    cursor,          \* fetch_sensor_data: cursor of the next page
    page_count,      \* fetch_sensor_data: pages requested so far
    raw,             \* ensure_data_loaded: readings still to store
    ingest,          \* result of ensure_data_loaded: "pending", "ok", "err"
    response,        \* the handler's response, None while running
    io,              \* I/O issued by the request, by kind
    fetched,         \* result of fetch_sensor_data: "pending", "ok", "err"
    last_page,       \* the last page received: kind, status, body type, results
    prior,           \* the value of cycles when the request began
    cycles,          \* calls of ensure_data_loaded so far that fetched,
                     \* attempted at least one store and returned Ok
    empties,         \* existence checks answered "no rows" so far
    calls,           \* requests received so far
    range_in,        \* parser spec: the input string
    range_out        \* parser spec: None, or Some(the parser's result)

vars ==
    << sensor_data, mesh_summary, schema_created, max_pages, pc, params,
       has_data, all_data, cursor, page_count, raw, ingest, response, io,
       fetched, last_page, prior, cycles, empties, calls, range_in,
       range_out >>

Requests == 1..NumRequests

NoParams ==
    [device_id |-> None, mesh_id |-> None, timestamp_range |-> None, limit |-> None]

\* I/O issued by one request, by kind, and how many of its row stores and
\* recomputes returned Err.
NoIo ==
    [upstream |-> 0, exists |-> 0, inserts |-> 0, upserts |-> 0, selects |-> 0,
     store_errs |-> 0, upsert_errs |-> 0]

NoPage == [kind |-> "none", status |-> 0, json |-> FALSE, results |-> None]
Envelope(resp) ==
    [kind |-> resp.kind, status |-> resp.status, json |-> resp.json,
     results |-> resp.results]

Count(r, kind) == [io EXCEPT ![r][kind] = @ + 1]

\* The handler's responses.
Unprocessable ==
    [status |-> 422, error |-> "invalid timestamp_range",
     hint |-> "use RFC3339 start,end", rows |-> << >>]
\* Faulty variant of IngestFailed: the ingestion error is answered 200.
IngestFailedAs200 ==
    [status |-> 200, error |-> "ingest failed", hint |-> "", rows |-> << >>]

IngestFailed ==
    [status |-> 500, error |-> "ingest failed", hint |-> "", rows |-> << >>]
LoadFailed ==
    [status |-> 500, error |-> "load failed", hint |-> "", rows |-> << >>]
Ok200(readings) ==
    [status |-> 200, error |-> "", hint |-> "", rows |-> readings]

\* Faulty variant of Rejected: only a range without a comma is rejected.
RejectedWithoutCommaOnly(p) ==
    IsSome(p.timestamp_range)
    /\ IsNone(split_once(Trim(Unwrap(p.timestamp_range))))

\* handler, step 0: a present timestamp_range the parser rejects.
Rejected(p) ==
    IsSome(p.timestamp_range)
    /\ IsNone(parse_timestamp_range(Unwrap(p.timestamp_range)))

\* Faulty variant of AfterCheck: the answer of the existence check is ignored.
AfterCheckAlwaysIngest(has, limit) ==
    IF PageLimitHit(0, limit) THEN "summary" ELSE "fetch"

\* ensure_data_loaded after the existence check: skip the ingest when there
\* is data, else enter fetch_sensor_data, whose loop breaks at once when
\* max_pages is 0 (the empty result then goes straight to the recompute).
AfterCheck(has, limit) ==
    IF has THEN "query"
    ELSE IF PageLimitHit(0, limit) THEN "summary" ELSE "fetch"

\* Faulty variant of AfterFetch: the recompute runs without the store loop.
AfterFetchToSummary(data) == "summary"

\* ensure_data_loaded after fetch_sensor_data returned Ok(data): the store
\* loop, then the recompute.
AfterFetch(data) == IF data = << >> THEN "summary" ELSE "store"

(***************************************************************************)
(* Init: after startup (main.rs): schema applied, both tables empty, no    *)
(* request received.  Requests are served one at a time by slot 1; the     *)
(* other slots are off (InitRace below turns them on).                     *)
(***************************************************************************)
InitLocals ==
    /\ params = [r \in Requests |-> NoParams]
    /\ has_data = [r \in Requests |-> None]
    /\ all_data = [r \in Requests |-> << >>]
    /\ cursor = [r \in Requests |-> None]
    /\ page_count = [r \in Requests |-> 0]
    /\ raw = [r \in Requests |-> << >>]
    /\ ingest = [r \in Requests |-> "pending"]
    /\ fetched = [r \in Requests |-> "pending"]
    /\ response = [r \in Requests |-> None]
    /\ io = [r \in Requests |-> NoIo]
    /\ last_page = [r \in Requests |-> NoPage]
    /\ prior = [r \in Requests |-> 0]
    /\ cycles = 0
    /\ empties = 0
    /\ calls = 0

Init ==
    /\ sensor_data = EmptyBag
    /\ mesh_summary = << >>
    /\ schema_created \in BOOLEAN
    /\ max_pages \in 0..MaxPagesCfg
    /\ pc = [r \in Requests |-> IF r = 1 THEN "idle" ELSE "off"]
    /\ InitLocals
    /\ range_in = << >>
    /\ range_out = None

(***************************************************************************)
(* handler, up to its first await: validate timestamp_range.               *)
(***************************************************************************)
Recv(r, P) ==
    /\ pc[r] \in {"idle", "done"}
    /\ calls < MaxCalls
    /\ \E p \in P :
        /\ params' = [params EXCEPT ![r] = p]
        /\ IF Rejected(p)
           THEN /\ pc' = [pc EXCEPT ![r] = "done"]
                /\ response' = [response EXCEPT ![r] = Some(Unprocessable)]
           ELSE /\ pc' = [pc EXCEPT ![r] = "check"]
                /\ response' = [response EXCEPT ![r] = None]
    /\ calls' = calls + 1
    /\ prior' = [prior EXCEPT ![r] = cycles]
    /\ has_data' = [has_data EXCEPT ![r] = None]
    /\ all_data' = [all_data EXCEPT ![r] = << >>]
    /\ cursor' = [cursor EXCEPT ![r] = None]
    /\ page_count' = [page_count EXCEPT ![r] = 0]
    /\ raw' = [raw EXCEPT ![r] = << >>]
    /\ ingest' = [ingest EXCEPT ![r] = "pending"]
    /\ fetched' = [fetched EXCEPT ![r] = "pending"]
    /\ io' = [io EXCEPT ![r] = NoIo]
    /\ last_page' = [last_page EXCEPT ![r] = NoPage]
    /\ UNCHANGED << sensor_data, mesh_summary, schema_created, max_pages,
                    cycles, empties, range_in, range_out >>

(***************************************************************************)
(* ensure_data_loaded: SELECT EXISTS (SELECT 1 FROM sensor_data).          *)
(***************************************************************************)
Check(r) ==
    /\ pc[r] = "check"
    /\ io' = Count(r, "exists")
    /\ \E outcome \in {"ok", "err"} :
        IF outcome = "err"
        THEN /\ ingest' = [ingest EXCEPT ![r] = "err"]
             /\ response' = [response EXCEPT ![r] = Some(IngestFailed)]
             /\ pc' = [pc EXCEPT ![r] = "done"]
             /\ UNCHANGED << has_data, fetched, raw, empties >>
        ELSE /\ has_data' = [has_data EXCEPT ![r] = Some(Exists(sensor_data))]
             /\ empties' = IF Exists(sensor_data) THEN empties ELSE empties + 1
             /\ pc' = [pc EXCEPT ![r] = AfterCheck(Exists(sensor_data), max_pages)]
             /\ ingest' = [ingest EXCEPT ![r] =
                              IF AfterCheck(Exists(sensor_data), max_pages) = "query"
                              THEN "ok" ELSE "pending"]
             /\ fetched' = [fetched EXCEPT ![r] =
                              IF AfterCheck(Exists(sensor_data), max_pages) = "summary"
                              THEN "ok" ELSE "pending"]
             /\ raw' = [raw EXCEPT ![r] = << >>]
             /\ UNCHANGED response
    /\ UNCHANGED << sensor_data, mesh_summary, schema_created, max_pages, params,
                    all_data, cursor, page_count, last_page, prior, cycles,
                    calls, range_in, range_out >>

(***************************************************************************)
(* fetch_sensor_data: one iteration of the loop, one upstream request.     *)
(***************************************************************************)
FetchPage(r, R) ==
    /\ pc[r] = "fetch"
    /\ io' = Count(r, "upstream")
    /\ page_count' = [page_count EXCEPT ![r] = @ + 1]
    /\ \E resp \in R :
        /\ last_page' = [last_page EXCEPT ![r] = Envelope(resp)]
        /\ IF ~TransportOk(resp)
           THEN /\ fetched' = [fetched EXCEPT ![r] = "err"]
                /\ ingest' = [ingest EXCEPT ![r] = "err"]
                /\ response' = [response EXCEPT ![r] = Some(IngestFailed)]
                /\ pc' = [pc EXCEPT ![r] = "done"]
                /\ UNCHANGED << all_data, cursor, raw >>
           ELSE LET data == all_data[r] \o PageItems(resp)
                    cur == NextCursor(resp)
                IN  /\ cursor' = [cursor EXCEPT ![r] = cur]
                    /\ IF FetchContinues(cur, page_count[r] + 1, max_pages)
                       THEN /\ all_data' = [all_data EXCEPT ![r] = data]
                            /\ UNCHANGED << pc, fetched, raw >>
                       ELSE \* Ok(all_data): the vector moves to the caller
                            /\ all_data' = [all_data EXCEPT ![r] = << >>]
                            /\ fetched' = [fetched EXCEPT ![r] = "ok"]
                            /\ raw' = [raw EXCEPT ![r] = data]
                            /\ pc' = [pc EXCEPT ![r] = AfterFetch(data)]
                    /\ UNCHANGED << ingest, response >>
    /\ UNCHANGED << sensor_data, mesh_summary, schema_created, max_pages, params,
                    has_data, prior, cycles, empties, calls, range_in,
                    range_out >>

(***************************************************************************)
(* ensure_data_loaded: one iteration of the store loop:                    *)
(* store_sensor_reading(pool, &r.to_transformed()), errors only logged.    *)
(***************************************************************************)
Store(r) ==
    /\ pc[r] = "store"
    /\ \E outcome \in StoreOutcomes(schema_created) :
        IF outcome = "ok"
        THEN /\ sensor_data' = BagAdd(sensor_data, to_transformed(Head(raw[r])))
             /\ io' = Count(r, "inserts")
        ELSE /\ sensor_data' = sensor_data
             /\ io' = [io EXCEPT ![r].inserts = @ + 1, ![r].store_errs = @ + 1]
    /\ raw' = [raw EXCEPT ![r] = Tail(@)]
    /\ pc' = [pc EXCEPT ![r] = AfterFetch(Tail(raw[r]))]
    /\ UNCHANGED << mesh_summary, schema_created, max_pages, params, has_data,
                    all_data, cursor, page_count, ingest, fetched, response,
                    last_page, prior, cycles, empties, calls, range_in,
                    range_out >>

(***************************************************************************)
(* ensure_data_loaded: update_mesh_summaries, whose error is returned.     *)
(***************************************************************************)
Summary(r) ==
    /\ pc[r] = "summary"
    /\ \E outcome \in SummaryOutcomes(schema_created, sensor_data) :
        IF outcome = "ok"
        THEN /\ mesh_summary' = Upsert(mesh_summary, sensor_data)
             /\ io' = Count(r, "upserts")
             /\ ingest' = [ingest EXCEPT ![r] = "ok"]
             /\ pc' = [pc EXCEPT ![r] = "query"]
             /\ cycles' = IF io[r].inserts >= 1 THEN cycles + 1 ELSE cycles
             /\ UNCHANGED response
        ELSE /\ io' = [io EXCEPT ![r].upserts = @ + 1, ![r].upsert_errs = @ + 1]
             /\ ingest' = [ingest EXCEPT ![r] = "err"]
             /\ response' = [response EXCEPT ![r] = Some(IngestFailed)]
             /\ pc' = [pc EXCEPT ![r] = "done"]
             /\ UNCHANGED << mesh_summary, cycles >>
    /\ UNCHANGED << sensor_data, schema_created, max_pages, params, has_data,
                    all_data, cursor, page_count, raw, fetched, last_page,
                    prior, empties, calls, range_in, range_out >>

(***************************************************************************)
(* handler, step 2: load_filtered_readings, then the response.             *)
(***************************************************************************)
Query(r) ==
    /\ pc[r] = "query"
    /\ io' = Count(r, "selects")
    /\ pc' = [pc EXCEPT ![r] = "done"]
    /\ \/ response' = [response EXCEPT ![r] = Some(LoadFailed)]
       \/ \E readings \in QueryResults(sensor_data, params[r]) :
            response' = [response EXCEPT ![r] = Some(Ok200(readings))]
    /\ UNCHANGED << sensor_data, mesh_summary, schema_created, max_pages, params,
                    has_data, all_data, cursor, page_count, raw, ingest, fetched,
                    last_page, prior, cycles, empties, calls, range_in,
                    range_out >>

(***************************************************************************)
(* Spec: the pipeline, one request after the other (slot 1).  The items of *)
(* a page are well-formed and the replies carry status 200.                *)
(***************************************************************************)
\* Requests the handler receives: no filter, two rejected ranges, and a
\* filtered, capped query.
HandlerParams ==
    { NoParams,
      [NoParams EXCEPT !.timestamp_range = Some(<< "T2Z", ",", "T1Z" >>)],
      [NoParams EXCEPT !.timestamp_range = Some(<< "x" >>)],
      [device_id |-> Some("device-001"), mesh_id |-> None,
       timestamp_range |-> Some(<< "T1Z", ",", "T2Z" >>), limit |-> Some(1)] }

PipelineResponses ==
    { resp \in Responses :
        /\ resp.kind = "http" => resp.status = 200
        /\ resp.next_cursor \in {"absent"} \cup Cursors
        /\ IsSome(resp.results) =>
             \A i \in 1..Len(Unwrap(resp.results)) : IsSome(Unwrap(resp.results)[i]) }

Next ==
    \E r \in Requests :
        \/ Recv(r, HandlerParams)
        \/ Check(r)
        \/ FetchPage(r, PipelineResponses)
        \/ Store(r)
        \/ Summary(r)
        \/ Query(r)

Spec == Init /\ [][Next]_vars

(***************************************************************************)
(* SpecFetch: fetch_sensor_data against every upstream behaviour, up to    *)
(* the return of the fetch.                                                *)
(***************************************************************************)
NextFetch ==
    \E r \in Requests :
        \/ Recv(r, { NoParams })
        \/ Check(r)
        \/ FetchPage(r, Responses)

SpecFetch == Init /\ [][NextFetch]_vars

(***************************************************************************)
(* SpecRace: the pipeline under concurrent requests: every slot is on.     *)
(* Requests are unfiltered and a page holds one reading.                   *)
(***************************************************************************)
RaceParams == { NoParams }

RaceResponses ==
    { resp \in PipelineResponses :
        /\ resp.next_cursor = "absent"
        /\ TransportOk(resp) => resp.results = Some(<< Some(ReadingA) >>) }

InitRace ==
    /\ sensor_data = EmptyBag
    /\ mesh_summary = << >>
    /\ schema_created \in BOOLEAN
    /\ max_pages \in 0..MaxPagesCfg
    /\ pc = [r \in Requests |-> "idle"]
    /\ InitLocals
    /\ range_in = << >>
    /\ range_out = None

NextRace ==
    \E r \in Requests :
        \/ Recv(r, RaceParams)
        \/ Check(r)
        \/ FetchPage(r, RaceResponses)
        \/ Store(r)
        \/ Summary(r)
        \/ Query(r)

SpecRace == InitRace /\ [][NextRace]_vars

(***************************************************************************)
(* SpecParse: parse_timestamp_range applied to every string of up to       *)
(* MaxLen characters.  No request runs.                                    *)
(***************************************************************************)
InitParse ==
    /\ sensor_data = EmptyBag
    /\ mesh_summary = << >>
    /\ schema_created = TRUE
    /\ max_pages = MaxPagesCfg
    /\ pc = [r \in Requests |-> "off"]
    /\ InitLocals
    /\ range_in \in SeqsUpTo(Alphabet, MaxLen)
    /\ range_out = None

ParseRange ==
    /\ range_out = None
    /\ range_out' = Some(parse_timestamp_range(range_in))
    /\ UNCHANGED << sensor_data, mesh_summary, schema_created, max_pages, pc,
                    params, has_data, all_data, cursor, page_count, raw, ingest,
                    response, io, fetched, last_page, prior, cycles, empties,
                    calls, range_in >>

NextParse == ParseRange

SpecParse == InitParse /\ [][NextParse]_vars

(***************************************************************************)
(* SpecQuery: load_filtered_readings applied to every table of 1..MaxRows  *)
(* rows and every filter: request 1 has passed ensure_data_loaded on its   *)
(* fast path and is about to run the query.                                *)
(***************************************************************************)
RECURSIVE SeqToBag(_)
SeqToBag(s) == IF s = << >> THEN EmptyBag ELSE BagAdd(SeqToBag(Tail(s)), Head(s))

Tables == { SeqToBag(s) : s \in SeqsUpTo(RowsWide, MaxRows) } \ { EmptyBag }

\* timestamp_range strings the handler lets through.
QueryRanges ==
    { << "," >>,
      << "T1Z", ",", "T2Z" >>,
      << "T2+01", "," >>,
      << ",", "T2Z" >>,
      << "T3+01", ",", " ", "T2Z" >>,
      << "x", ",", "T2Z" >>,
      << "T2Z", ",", "T3+01" >> }

QueryParams ==
    [device_id : { None } \cup { Some(d) : d \in Devices },
     mesh_id : { None } \cup { Some(m) : m \in Meshes },
     timestamp_range : { None } \cup { Some(t) : t \in QueryRanges },
     limit : { None } \cup { Some(n) : n \in 0..MaxLimit }]

InitQuery ==
    /\ sensor_data \in Tables
    /\ mesh_summary = Upsert(<< >>, sensor_data)
    /\ schema_created = FALSE
    /\ max_pages = MaxPagesCfg
    /\ pc = [r \in Requests |-> IF r = 1 THEN "query" ELSE "off"]
    /\ \E p \in QueryParams :
         params = [r \in Requests |-> IF r = 1 THEN p ELSE NoParams]
    /\ has_data = [r \in Requests |-> IF r = 1 THEN Some(TRUE) ELSE None]
    /\ all_data = [r \in Requests |-> << >>]
    /\ cursor = [r \in Requests |-> None]
    /\ page_count = [r \in Requests |-> 0]
    /\ raw = [r \in Requests |-> << >>]
    /\ ingest = [r \in Requests |-> IF r = 1 THEN "ok" ELSE "pending"]
    /\ fetched = [r \in Requests |-> "pending"]
    /\ response = [r \in Requests |-> None]
    /\ io = [r \in Requests |-> IF r = 1 THEN [NoIo EXCEPT !.exists = 1] ELSE NoIo]
    /\ last_page = [r \in Requests |-> NoPage]
    /\ prior = [r \in Requests |-> 0]
    /\ cycles = 0
    /\ empties = 0
    /\ calls = 1
    /\ range_in = << >>
    /\ range_out = None

NextQuery == \E r \in Requests : Query(r)

SpecQuery == InitQuery /\ [][NextQuery]_vars

(***************************************************************************)
(* SpecIngest: a request runs while another one is ingesting.  Request 1   *)
(* found sensor_data empty, fetched one page of up to MaxItems readings    *)
(* (temperatures and humidities on and around the alert thresholds, two    *)
(* meshes) and is about to store them; request 2 has passed validation and *)
(* is about to run its existence check; one more request may arrive (the   *)
(* earlier ones were rejected at validation and left no trace).            *)
(***************************************************************************)
IngestReadings ==
    { ReadingB,
      Raw("mesh-001", "device-002", 2, -10, 90),
      Raw("mesh-002", "device-002", 3, -11, 91),
      Raw("mesh-001", "device-001", 3, 60, 10) }

IngestPages == SeqsUpTo(IngestReadings, MaxItems) \ { << >> }

IngestPage(data) ==
    [kind |-> "http", status |-> 200, json |-> TRUE,
     results |-> Some([i \in 1..Len(data) |-> Some(data[i])])]

InitIngest ==
    /\ sensor_data = EmptyBag
    /\ mesh_summary = << >>
    /\ schema_created \in BOOLEAN
    /\ max_pages = 1
    /\ pc = [r \in Requests |-> IF r = 1 THEN "store"
                                 ELSE IF r = 2 THEN "check" ELSE "off"]
    /\ params = [r \in Requests |-> NoParams]
    /\ has_data = [r \in Requests |-> IF r = 1 THEN Some(FALSE) ELSE None]
    /\ all_data = [r \in Requests |-> << >>]
    /\ cursor = [r \in Requests |-> None]
    /\ page_count = [r \in Requests |-> IF r = 1 THEN 1 ELSE 0]
    /\ \E data \in IngestPages :
         /\ raw = [r \in Requests |-> IF r = 1 THEN data ELSE << >>]
         /\ last_page = [r \in Requests |-> IF r = 1 THEN IngestPage(data) ELSE NoPage]
    /\ ingest = [r \in Requests |-> "pending"]
    /\ fetched = [r \in Requests |-> IF r = 1 THEN "ok" ELSE "pending"]
    /\ response = [r \in Requests |-> None]
    /\ io = [r \in Requests |->
                IF r = 1 THEN [NoIo EXCEPT !.exists = 1, !.upstream = 1] ELSE NoIo]
    /\ prior = [r \in Requests |-> 0]
    /\ cycles = 0
    /\ empties = 1
    /\ calls = MaxCalls - 1
    /\ range_in = << >>
    /\ range_out = None

NextIngest ==
    \E r \in Requests :
        \/ Recv(r, RaceParams)
        \/ Check(r)
        \/ FetchPage(r, RaceResponses)
        \/ Store(r)
        \/ Summary(r)
        \/ Query(r)

SpecIngest == InitIngest /\ [][NextIngest]_vars

(***************************************************************************)
(* Properties.                                                             *)
(***************************************************************************)

\* C1 (SpecRace): a row is stored more than once only through callers that
\* each found sensor_data empty: no row has more copies than there were
\* existence checks answered "no rows".  The race itself is C1_Witness: two
\* concurrent first-time callers both saw the table empty, both fetched and
\* stored, and the one upstream reading is in sensor_data twice.
C1_DuplicatesNeedEmptyChecks ==
    \A row \in DOMAIN sensor_data : sensor_data[row] <= empties

C1_Witness ==
    /\ calls = 2
    /\ \A r \in {1, 2} :
         /\ pc[r] = "done"
         /\ has_data[r] = Some(FALSE)
         /\ io[r].upstream = 1
         /\ io[r].inserts = 1
    /\ to_transformed(ReadingA) \in DOMAIN sensor_data
    /\ sensor_data[to_transformed(ReadingA)] = 2

\* C2 (Spec, requests one after the other): once a call of
\* ensure_data_loaded has fetched, attempted its row stores and returned
\* Ok, a later call issues no upstream request and no insert, whatever the
\* outcome of those row stores.
C2_SecondCallIsNoOp ==
    \A r \in Requests :
        prior[r] >= 1 => io[r].upstream = 0 /\ io[r].inserts = 0

\* C3 (SpecFetch): one call of fetch_sensor_data issues at most max_pages
\* requests; it asks for another page only below the cap and only after a
\* response that carried a cursor; when it returns with the last response's
\* cursor still present it has issued exactly max_pages requests; it fails
\* only on a transport failure, never for reaching the cap; and what it
\* returns extends the items collected before the last page.
C3_PageCap ==
    /\ [](\A r \in Requests :
            /\ io[r].upstream = page_count[r]
            /\ page_count[r] <= max_pages
            /\ pc[r] = "fetch" =>
                 /\ page_count[r] < max_pages
                 /\ page_count[r] > 0 => IsSome(cursor[r])
            /\ fetched[r] = "ok" /\ IsSome(cursor[r]) => page_count[r] = max_pages
            /\ fetched[r] = "ok" /\ page_count[r] < max_pages => IsNone(cursor[r])
            /\ fetched[r] = "err" => ~(last_page[r].kind = "http" /\ last_page[r].json))
    /\ [][\A r \in Requests :
            fetched[r] = "pending" /\ fetched'[r] = "ok" =>
                /\ Len(raw'[r]) >= Len(all_data[r])
                /\ SubSeq(raw'[r], 1, Len(all_data[r])) = all_data[r]]_vars

C3_Witness ==
    \E r \in Requests :
        /\ fetched[r] = "ok"
        /\ IsSome(cursor[r])
        /\ max_pages >= 2
        /\ page_count[r] = max_pages
        /\ Len(raw[r]) >= 2

\* C4 (SpecFetch): a page answered by a connection error, a non-2xx status
\* or a body that is not JSON makes fetch_sensor_data, and then
\* ensure_data_loaded, return an error.
C4_TransportFailureIsFatal ==
    \A r \in Requests :
        (\/ last_page[r].kind = "conn_error"
         \/ /\ last_page[r].kind = "http"
            /\ \/ last_page[r].status < 200
               \/ last_page[r].status >= 300
               \/ ~last_page[r].json)
        => fetched[r] = "err" /\ ingest[r] = "err"

\* C5 (SpecParse): parse_timestamp_range returns None when the input has no
\* comma, when a side (split at the first comma) that is non-empty after
\* trimming is not a date-time literal, and when both sides parse with
\* start > end.
C5_RejectsInvalid ==
    IsSome(range_out) =>
        LET s == Trim(range_in)
            commas == { i \in 1..Len(s) : s[i] = "," }
            first == CHOOSE i \in commas : \A j \in commas : i <= j
            a == Trim(SubSeq(s, 1, first - 1))
            b == Trim(SubSeq(s, first + 1, Len(s)))
            bad(t) == t # << >> /\ ~(Len(t) = 1 /\ t[1] \in Literals)
            good(t) == Len(t) = 1 /\ t[1] \in Literals
        IN  (\/ commas = {}
             \/ bad(a)
             \/ bad(b)
             \/ /\ good(a) /\ good(b)
                /\ LocalHour(a[1]) - OffsetHours(a[1]) > LocalHour(b[1]) - OffsetHours(b[1]))
            => Unwrap(range_out) = None

\* C6 (Spec): a request whose timestamp_range is present and rejected by
\* the parser is answered 422 with error "invalid timestamp_range" and a
\* hint, and has issued no I/O of any kind.
C6_RejectedNoIo ==
    \A r \in Requests :
        (/\ pc[r] \notin {"off", "idle"}
         /\ IsSome(params[r].timestamp_range)
         /\ IsNone(parse_timestamp_range(Unwrap(params[r].timestamp_range))))
        => /\ pc[r] = "done"
           /\ IsSome(response[r])
           /\ Unwrap(response[r]).status = 422
           /\ Unwrap(response[r]).error = "invalid timestamp_range"
           /\ Unwrap(response[r]).hint # ""
           /\ io[r] = NoIo

C6_Witness ==
    \E r \in Requests :
        /\ pc[r] = "done"
        /\ params[r].timestamp_range = Some(<< "T2Z", ",", "T1Z" >>)
        /\ response[r] = Some(Unprocessable)
        /\ cycles >= 1

\* C7 (Spec): a request that passes validation runs the query only after
\* ensure_data_loaded returned Ok; a failed ingestion is answered 500 without
\* any query; a request that ran the query is answered 500 or 200; and a 200
\* carries a result of the query, after a successful ingestion step.
C7_HandlerOrder ==
    \A r \in Requests :
        (/\ pc[r] \notin {"off", "idle"}
         /\ ~(/\ IsSome(params[r].timestamp_range)
              /\ IsNone(parse_timestamp_range(Unwrap(params[r].timestamp_range)))))
        => /\ io[r].exists >= io[r].selects
           /\ io[r].selects <= 1
           /\ io[r].selects = 1 => ingest[r] = "ok" /\ pc[r] = "done"
           /\ pc[r] = "query" => ingest[r] = "ok" /\ io[r].selects = 0
           /\ ingest[r] = "ok" => pc[r] \in {"query", "done"}
           /\ ingest[r] = "err" =>
                /\ pc[r] = "done"
                /\ io[r].selects = 0
                /\ IsSome(response[r])
                /\ Unwrap(response[r]).status = 500
           /\ pc[r] = "done" =>
                /\ IsSome(response[r])
                /\ Unwrap(response[r]).status \in {200, 500}
                /\ ingest[r] \in {"ok", "err"}
                /\ ingest[r] = "ok" => io[r].selects = 1
                /\ Unwrap(response[r]).status = 200 =>
                     /\ ingest[r] = "ok"
                     /\ Unwrap(response[r]).rows \in QueryResults(sensor_data, params[r])
           /\ pc[r] # "done" => response[r] = None

C7_Witness ==
    \E r \in Requests :
        /\ pc[r] = "done"
        /\ has_data[r] = Some(FALSE)
        /\ io[r].inserts >= 2
        /\ IsSome(params[r].device_id)
        /\ Unwrap(response[r]).status = 200
        /\ Len(Unwrap(response[r]).rows) = 1
        /\ BagSize(sensor_data) = 2

\* C8 (SpecRace): an existence check answered while sensor_data holds a row
\* sends the call down the fast path: has_data is true, ensure_data_loaded
\* returns Ok at once, and the step leaves sensor_data and mesh_summary as
\* they were; a call on the fast path has issued no upstream request, no
\* insert and no recompute.
C8_FastPath ==
    /\ [](\A r \in Requests :
            has_data[r] = Some(TRUE) =>
                /\ pc[r] \in {"query", "done"}
                /\ ingest[r] = "ok"
                /\ fetched[r] = "pending"
                /\ io[r].upstream = 0
                /\ io[r].inserts = 0
                /\ io[r].upserts = 0)
    /\ [][\A r \in Requests :
            (/\ pc[r] = "check"
             /\ IsSome(has_data'[r])
             /\ BagSize(sensor_data) >= 1)
            => /\ has_data'[r] = Some(TRUE)
               /\ pc'[r] = "query"
               /\ ingest'[r] = "ok"
               /\ sensor_data' = sensor_data
               /\ mesh_summary' = mesh_summary]_vars

C8_Witness ==
    \E r \in Requests :
        /\ has_data[r] = Some(TRUE)
        /\ pc[r] = "done"
        /\ io[r] = [NoIo EXCEPT !.exists = 1, !.selects = 1]
        /\ Unwrap(response[r]).status = 200
        /\ Len(Unwrap(response[r]).rows) >= 1

\* C9 (SpecQuery): every row of a 200 response is a row of sensor_data that
\* satisfies each predicate whose filter is present (device_id and mesh_id
\* equal, timestamp_utc >= start and <= end, both inclusive); and the filters
\* are the only restriction: a response shorter than the cap holds every
\* row of sensor_data that satisfies them, as often as the table does.
C9_FiltersApplied ==
    \A r \in Requests :
        (IsSome(response[r]) /\ Unwrap(response[r]).status = 200) =>
            LET p == params[r]
                rows == Unwrap(response[r]).rows
                range == IF IsSome(p.timestamp_range)
                         THEN parse_timestamp_range(Unwrap(p.timestamp_range))
                         ELSE None
                start == IF IsSome(range) THEN Unwrap(range)[1] ELSE None
                end == IF IsSome(range) THEN Unwrap(range)[2] ELSE None
                cap == IF IsSome(p.limit) THEN Unwrap(p.limit) ELSE DEFAULT_LIMIT
                sat(x) ==
                    /\ IsSome(p.device_id) => x.device_id = Unwrap(p.device_id)
                    /\ IsSome(p.mesh_id) => x.mesh_id = Unwrap(p.mesh_id)
                    /\ IsSome(start) => x.timestamp_utc >= Unwrap(start)
                    /\ IsSome(end) => x.timestamp_utc <= Unwrap(end)
                returned(x) == Cardinality({ i \in 1..Len(rows) : rows[i] = x })
            IN  /\ \A i \in 1..Len(rows) :
                     rows[i] \in DOMAIN sensor_data /\ sat(rows[i])
                /\ \A x \in DOMAIN sensor_data : returned(x) <= sensor_data[x]
                /\ Len(rows) < cap =>
                     \A x \in DOMAIN sensor_data :
                         sat(x) => returned(x) = sensor_data[x]

C9_Witness ==
    \E r \in Requests :
        /\ IsSome(response[r])
        /\ Unwrap(response[r]).status = 200
        /\ params[r] = [device_id |-> Some("device-001"), mesh_id |-> Some("mesh-001"),
                        timestamp_range |-> Some(<< "T2+01", "," >>), limit |-> None]
        /\ Len(Unwrap(response[r]).rows) = 2
        /\ Unwrap(response[r]).rows[2].timestamp_utc = 1
        /\ BagSize(sensor_data) = 3

\* C10 (SpecQuery): the rows of a 200 response are in non-increasing
\* timestamp_utc order, and a matching row the response leaves out (the cap
\* truncated it) is no newer than any row returned.
C10_NewestFirst ==
    \A r \in Requests :
        (IsSome(response[r]) /\ Unwrap(response[r]).status = 200) =>
            LET rows == Unwrap(response[r]).rows
                returned(x) == Cardinality({ i \in 1..Len(rows) : rows[i] = x })
            IN  /\ \A i \in 1..(Len(rows) - 1) :
                     rows[i].timestamp_utc >= rows[i + 1].timestamp_utc
                /\ \A x \in DOMAIN sensor_data :
                     (Matches(x, params[r]) /\ returned(x) < sensor_data[x]) =>
                         \A i \in 1..Len(rows) :
                             x.timestamp_utc <= rows[i].timestamp_utc

C10_Witness ==
    \E r \in Requests :
        /\ IsSome(response[r])
        /\ Unwrap(response[r]).status = 200
        /\ params[r].limit = Some(2)
        /\ Len(Unwrap(response[r]).rows) = 2
        /\ Unwrap(response[r]).rows[1].timestamp_utc > Unwrap(response[r]).rows[2].timestamp_utc
        /\ \E x \in DOMAIN sensor_data :
             /\ Matches(x, params[r])
             /\ x.timestamp_utc < Unwrap(response[r]).rows[2].timestamp_utc

\* C11 (SpecQuery): the number of rows of a 200 response is the smaller of
\* the cap and the number of matching rows of sensor_data, the cap being the
\* limit parameter when present and 1000 otherwise; so limit = 0 returns no
\* row and no response is longer than the cap.
C11_CapApplied ==
    \A r \in Requests :
        (IsSome(response[r]) /\ Unwrap(response[r]).status = 200) =>
            LET p == params[r]
                rows == Unwrap(response[r]).rows
                cap == IF p.limit = None THEN 1000 ELSE p.limit[1]
                matching == { x \in DOMAIN sensor_data : Matches(x, p) }
                count == BagCardinality([x \in matching |-> sensor_data[x]])
            IN  /\ Len(rows) = IF cap <= count THEN cap ELSE count
                /\ Len(rows) <= cap
                /\ p.limit = Some(0) => rows = << >>

C11_Witness ==
    \E r \in Requests :
        /\ IsSome(response[r])
        /\ Unwrap(response[r]).status = 200
        /\ params[r] = [NoParams EXCEPT !.limit = Some(0)]
        /\ Unwrap(response[r]).rows = << >>
        /\ BagSize(sensor_data) = 3

\* C12 (SpecIngest): every row of sensor_data and every row of a response
\* has temperature_alert = (temperature_c < -10 or > 60) and humidity_alert =
\* (humidity < 10 or > 90); a row whose temperature is -10 or 60 has no
\* temperature alert and a row whose humidity is 10 or 90 no humidity alert.
C12_AlertsStrict ==
    LET ok(x) ==
            /\ x.temperature_alert <=> (x.temperature_c < -10 \/ x.temperature_c > 60)
            /\ x.humidity_alert <=> (x.humidity < 10 \/ x.humidity > 90)
            /\ x.temperature_c \in {-10, 60} => ~x.temperature_alert
            /\ x.humidity \in {10, 90} => ~x.humidity_alert
    IN  /\ \A x \in DOMAIN sensor_data : ok(x)
        /\ \A r \in Requests :
             IsSome(response[r]) =>
                 \A i \in 1..Len(Unwrap(response[r]).rows) :
                     ok(Unwrap(response[r]).rows[i])

C12_Witness ==
    \E r \in Requests :
        /\ IsSome(response[r])
        /\ Unwrap(response[r]).status = 200
        /\ \E i, j, k \in 1..Len(Unwrap(response[r]).rows) :
             LET x == Unwrap(response[r]).rows[i]
                 y == Unwrap(response[r]).rows[j]
                 z == Unwrap(response[r]).rows[k]
             IN  /\ x.temperature_c = -10 /\ x.humidity = 90
                 /\ ~x.temperature_alert /\ ~x.humidity_alert
                 /\ y.temperature_c = 60 /\ y.humidity = 10
                 /\ ~y.temperature_alert /\ ~y.humidity_alert
                 /\ z.temperature_c = 20
                 /\ x \in DOMAIN sensor_data /\ y \in DOMAIN sensor_data

\* C13 (SpecIngest): a recompute that succeeds leaves in mesh_summary, for
\* every mesh_id of sensor_data at that moment, the one row of that key with
\* reading_count = the number of sensor_data rows of the mesh and averages =
\* the sums over those rows divided by that number, whatever the row held
\* before; no other key is added.
C13_SummaryRecomputed ==
    [][\A r \in Requests :
        (/\ io'[r].upserts = io[r].upserts + 1
         /\ io'[r].upsert_errs = io[r].upsert_errs)
        => LET meshes == { x.mesh_id : x \in DOMAIN sensor_data }
               of(m) == { x \in DOMAIN sensor_data : x.mesh_id = m }
               n(m) == BagCardinality([x \in of(m) |-> sensor_data[x]])
           IN  /\ DOMAIN mesh_summary' = DOMAIN mesh_summary \cup meshes
               /\ \A m \in meshes :
                    /\ mesh_summary'[m].reading_count = n(m)
                    /\ mesh_summary'[m].avg_temperature_c =
                         << BagSum(sensor_data, m, "temperature_c"), n(m) >>
                    /\ mesh_summary'[m].avg_humidity =
                         << BagSum(sensor_data, m, "humidity"), n(m) >>]_vars

C13_Witness ==
    /\ \A r \in {1, 2} :
         /\ io[r].upserts = 1
         /\ io[r].upsert_errs = 0
         /\ io[r].inserts >= 1
    /\ DOMAIN mesh_summary = {"mesh-001", "mesh-002"}
    /\ mesh_summary["mesh-001"].reading_count = 2
    /\ mesh_summary["mesh-001"].avg_temperature_c = << 10, 2 >>
    /\ mesh_summary["mesh-002"].reading_count = 1
    /\ BagSize(sensor_data) = 3

\* C14 (SpecParse): for an input with one comma whose sides are each blank
\* or one date-time literal between optional whitespace, with start <= end
\* when both are literals, parse_timestamp_range returns Some((start, end)):
\* None for a blank side, the literal's UTC instant otherwise; equal
\* instants are accepted and "," gives (None, None).
C14_ParsesValid ==
    IsSome(range_out) =>
        LET notSpace(c) == c # " "
            utc(lit) == CASE lit = "T1Z" -> 1
                          [] lit = "T2Z" -> 2
                          [] lit = "T2+01" -> 1
                          [] lit = "T3+01" -> 2
            valid(t) == \/ SelectSeq(t, notSpace) = << >>
                        \/ /\ Len(SelectSeq(t, notSpace)) = 1
                           /\ SelectSeq(t, notSpace)[1] \in Literals
            bound(t) == IF SelectSeq(t, notSpace) = << >> THEN None
                        ELSE Some(utc(SelectSeq(t, notSpace)[1]))
        IN  \A i \in 1..Len(range_in) :
                LET S == SubSeq(range_in, 1, i - 1)
                    E == SubSeq(range_in, i + 1, Len(range_in))
                IN  (/\ range_in[i] = ","
                     /\ valid(S) /\ valid(E)
                     /\ (IsSome(bound(S)) /\ IsSome(bound(E)))
                            => Unwrap(bound(S)) <= Unwrap(bound(E)))
                    => Unwrap(range_out) = Some(<< bound(S), bound(E) >>)

C14_Witness ==
    /\ range_in = << " ", "T2+01", ",", "T1Z" >>
    /\ range_out = Some(Some(<< Some(1), Some(1) >>))

\* C15 (SpecFetch): each page that arrives as JSON appends to the readings
\* collected so far exactly its well-formed items, in order: a malformed
\* item is left out alone, a page without a results array appends nothing;
\* such a page never fails the fetch, which goes on to the next page when
\* the page carries a cursor and the cap allows; what a successful fetch
\* returns is the collection after its last page.
C15_Concatenation ==
    [][\A r \in Requests :
        (/\ page_count'[r] = page_count[r] + 1
         /\ last_page'[r].kind = "http"
         /\ last_page'[r].json)
        => LET wellFormed(item) == item # None
               kept == IF last_page'[r].results = None THEN << >>
                       ELSE SelectSeq(last_page'[r].results[1], wellFormed)
               items == [i \in 1..Len(kept) |-> kept[i][1]]
               collected == IF fetched'[r] = "ok" THEN raw'[r] ELSE all_data'[r]
           IN  /\ fetched'[r] \in {"pending", "ok"}
               /\ collected = all_data[r] \o items
               /\ (cursor'[r] # None /\ page_count'[r] < max_pages)
                    => pc'[r] = "fetch" /\ fetched'[r] = "pending"
               /\ fetched'[r] = "pending" => pc'[r] = "fetch"]_vars

C15_Witness ==
    \E r \in Requests :
        /\ fetched[r] = "ok"
        /\ page_count[r] = 2
        /\ last_page[r].results = Some(<< None, Some(ReadingB) >>)
        /\ raw[r] = << ReadingA, ReadingB >>

\* C16 (Spec): a row store, failed or not, is followed by the store of the
\* next fetched reading, or by the recompute after the last one, and never
\* ends the call; a store that succeeds adds its row and a failed one
\* changes nothing; no step removes a row of sensor_data; and a recompute
\* that succeeds makes the call return Ok whatever the row stores did.
C16_StoreFailuresSkipped ==
    /\ [](\A r \in Requests :
            /\ pc[r] = "store" => raw[r] # << >> /\ ingest[r] = "pending"
            /\ pc[r] = "summary" => raw[r] = << >> /\ ingest[r] = "pending"
            /\ io[r].store_errs <= io[r].inserts
            /\ (io[r].upserts = 1 /\ io[r].upsert_errs = 0) => ingest[r] = "ok")
    /\ [][/\ \A x \in DOMAIN sensor_data :
               x \in DOMAIN sensor_data' /\ sensor_data'[x] >= sensor_data[x]
          /\ \A r \in Requests :
               io'[r].inserts = io[r].inserts + 1 =>
                   /\ raw'[r] = Tail(raw[r])
                   /\ pc'[r] = IF Len(raw[r]) > 1 THEN "store" ELSE "summary"
                   /\ ingest'[r] = "pending"
                   /\ sensor_data' =
                        IF io'[r].store_errs = io[r].store_errs
                        THEN sensor_data (+) SetToBag({to_transformed(Head(raw[r]))})
                        ELSE sensor_data]_vars

C16_Witness ==
    \E r \in Requests :
        /\ pc[r] = "done"
        /\ page_count[r] = 1
        /\ last_page[r].results = Some(<< Some(ReadingA), Some(ReadingB) >>)
        /\ io[r].inserts = 2
        /\ io[r].store_errs = 1
        /\ ingest[r] = "ok"
        /\ sensor_data = SetToBag({to_transformed(ReadingB)})
        /\ Unwrap(response[r]).status = 200
        /\ Unwrap(response[r]).rows = << to_transformed(ReadingB) >>

\* C17 (Spec): a call whose fetch returned Ok runs the recompute exactly
\* once, after one store attempt per fetched reading (failed attempts
\* count), and before it returns; a failed recompute makes the call return
\* an error.
C17_RecomputeOnceAfterStores ==
    /\ [](\A r \in Requests :
            /\ io[r].upserts <= 1
            /\ io[r].upserts = 1 => fetched[r] = "ok" /\ raw[r] = << >>
            /\ pc[r] \in {"fetch", "store"} => io[r].upserts = 0
            /\ (fetched[r] = "ok" /\ pc[r] \in {"query", "done"}) => io[r].upserts = 1
            /\ io[r].upsert_errs = 1 =>
                 /\ io[r].upserts = 1
                 /\ ingest[r] = "err"
                 /\ pc[r] = "done"
                 /\ Unwrap(response[r]).status = 500)
    /\ [][\A r \in Requests :
            /\ (fetched[r] = "pending" /\ fetched'[r] = "ok") => io'[r].inserts = 0
            /\ (fetched[r] = "ok" /\ fetched'[r] = "ok") =>
                 io'[r].inserts + Len(raw'[r]) = io[r].inserts + Len(raw[r])]_vars

C17_Witness ==
    \E r \in Requests :
        /\ pc[r] = "done"
        /\ page_count[r] = 2
        /\ io[r].inserts = 3
        /\ io[r].store_errs = 2
        /\ io[r].upserts = 1
        /\ io[r].upsert_errs = 0
        /\ ingest[r] = "ok"
        /\ BagSize(sensor_data) = 1

\* C18 (SpecIngest): a request is not held back by another request's
\* ingestion: an existence check that finds a row, however few of the rows
\* being ingested are stored yet, sends the request to the query without any
\* ingestion of its own, and an unfiltered query answered 200 returns
\* exactly the rows sensor_data holds at that moment.  The partial read
\* itself is C18_Witness: request 2 answered 200 with the one row stored so
\* far while request 1 still has a fetched reading to store.
C18_ReadsWhatIsStored ==
    [][\A r \in Requests :
        /\ (io'[r].exists = io[r].exists + 1 /\ sensor_data # EmptyBag
                /\ has_data'[r] # None)
            => /\ has_data'[r] = Some(TRUE)
               /\ pc'[r] = "query"
               /\ io'[r].upstream = 0 /\ io'[r].inserts = 0 /\ io'[r].upserts = 0
        /\ (io'[r].selects = io[r].selects + 1 /\ response'[r] # None
                /\ response'[r][1].status = 200)
            => LET rows == response'[r][1].rows
               IN  /\ Len(rows) = BagCardinality(sensor_data)
                   /\ \A x \in DOMAIN sensor_data :
                        Cardinality({ i \in 1..Len(rows) : rows[i] = x })
                            = sensor_data[x]]_vars

C18_Witness ==
    /\ pc[1] = "store"
    /\ io[1].inserts = 1
    /\ io[1].store_errs = 0
    /\ Len(raw[1]) = 1
    /\ pc[2] = "done"
    /\ has_data[2] = Some(TRUE)
    /\ io[2] = [NoIo EXCEPT !.exists = 1, !.selects = 1]
    /\ Unwrap(response[2]).status = 200
    /\ Len(Unwrap(response[2]).rows) = 1
    /\ Unwrap(response[2]).rows[1] = to_transformed(Unwrap(Unwrap(last_page[1].results)[1]))
    /\ Len(Unwrap(last_page[1].results)) = 2

\* C19 (SpecQuery): the result of load_filtered_readings is a function of
\* the filter and of the contents of sensor_data: the sequence a request
\* was answered with is the only one the same query can return on the same
\* table, also when the cap truncates the result and matching rows share a
\* timestamp_utc.
C19_Deterministic ==
    \A r \in Requests :
        (IsSome(response[r]) /\ Unwrap(response[r]).status = 200) =>
            \A again \in QueryResults(sensor_data, params[r]) :
                again = Unwrap(response[r]).rows

\* C20 (Spec): a page that fails in transport (connection error, body that
\* is not JSON), the first or a later one, makes fetch_sensor_data and
\* ensure_data_loaded return an error and the handler answer 500; that call
\* has then issued no row store and no recompute, and it is only row stores
\* and recomputes that change sensor_data and mesh_summary.
C20_FetchFailureWritesNothing ==
    /\ [](\A r \in Requests :
            /\ (last_page[r].kind = "conn_error"
                   \/ (last_page[r].kind = "http" /\ ~last_page[r].json))
                => fetched[r] = "err"
            /\ fetched[r] = "err" =>
                 /\ ingest[r] = "err"
                 /\ pc[r] = "done"
                 /\ Unwrap(response[r]).status = 500
                 /\ io[r].inserts = 0
                 /\ io[r].upserts = 0
                 /\ io[r].selects = 0
            /\ pc[r] = "fetch" => io[r].inserts = 0 /\ io[r].upserts = 0)
    /\ [][/\ sensor_data' # sensor_data =>
               \E r \in Requests : io'[r].inserts = io[r].inserts + 1
          /\ mesh_summary' # mesh_summary =>
               \E r \in Requests : io'[r].upserts = io[r].upserts + 1
          /\ \A r \in Requests :
               (fetched[r] = "pending" /\ fetched'[r] = "err") =>
                   /\ sensor_data' = sensor_data
                   /\ mesh_summary' = mesh_summary]_vars

C20_Witness ==
    \E r \in Requests :
        /\ fetched[r] = "err"
        /\ page_count[r] = 2
        /\ Len(all_data[r]) = 2
        /\ last_page[r].kind = "conn_error"
        /\ sensor_data = EmptyBag
        /\ mesh_summary = << >>
        /\ response[r] = Some(IngestFailed)

\* C21 (SpecRace): whenever no call of ensure_data_loaded is in progress and
\* sensor_data holds a row, mesh_summary has, for every mesh_id of
\* sensor_data, the row of that key with reading_count = the number of
\* sensor_data rows of the mesh; also after a call whose recompute failed
\* and after racing ingestions.
C21_SummaryConsistent ==
    (/\ \A r \in Requests : pc[r] \notin {"check", "fetch", "store", "summary"}
     /\ sensor_data # EmptyBag)
    => \A m \in { x.mesh_id : x \in DOMAIN sensor_data } :
           /\ m \in DOMAIN mesh_summary
           /\ mesh_summary[m].reading_count =
                BagCardinality([x \in { y \in DOMAIN sensor_data : y.mesh_id = m }
                                  |-> sensor_data[x]])

====
